---- MODULE Spec2Model ----
(***************************************************************************)
(* Model of ticket_auth.TicketFactory (src/ticket_auth/ticket_factory.py): *)
(* issuing (new), decoding (parse) and verifying (validate) of             *)
(* mod_auth_tkt style authentication tickets.                              *)
(*                                                                         *)
(* Representation.                                                         *)
(*   - A Python str is a sequence of Unicode code points (naturals).       *)
(*   - A Python bytes object is a sequence of naturals in 0..255.          *)
(*   - A Python int is a sign and a magnitude written in base 16           *)
(*     (most significant digit first, no leading zero), because the        *)
(*     values at the edge of the 32 bit time field do not fit the          *)
(*     integers of the model checker.                                      *)
(*   - A call that can raise returns a record whose field err names the    *)
(*     exception ("none" when the call returns normally).                  *)
(***************************************************************************)
EXTENDS Integers, Sequences, FiniteSets, TLC

(***************************************************************************)
(* Sequences                                                               *)
(***************************************************************************)
Take(s, n) == SubSeq(s, 1, IF n < Len(s) THEN n ELSE Len(s))

Drop(s, n) == SubSeq(s, n + 1, Len(s))

Repeat(x, n) == IF n <= 0 THEN <<>> ELSE [i \in 1..n |-> x]

\* str.split(sep) for a one character separator: always at least one piece
RECURSIVE SplitFrom(_, _, _)
SplitFrom(s, sep, piece) ==
    IF s = <<>> THEN <<piece>>
    ELSE IF Head(s) = sep THEN <<piece>> \o SplitFrom(Tail(s), sep, <<>>)
    ELSE SplitFrom(Tail(s), sep, Append(piece, Head(s)))

Split(s, sep) == SplitFrom(s, sep, <<>>)

\* sep.join(pieces)
RECURSIVE Join(_, _)
Join(sep, pieces) ==
    IF pieces = <<>> THEN <<>>
    ELSE IF Len(pieces) = 1 THEN pieces[1]
    ELSE pieces[1] \o sep \o Join(sep, Tail(pieces))

(***************************************************************************)
(* Characters                                                              *)
(***************************************************************************)
chBang == 33
chPercent == 37
chPlus == 43
chComma == 44
chMinus == 45
chZero == 48
chUnderscore == 95
chReplacement == 65533

IsDigit(c) == c \in 48..57
IsUpper(c) == c \in 65..90
IsLower(c) == c \in 97..122

IsHexDigit(c) == c \in 48..57 \/ c \in 65..70 \/ c \in 97..102

HexValue(c) ==
    IF c \in 48..57 THEN c - 48
    ELSE IF c \in 65..70 THEN c - 55
    ELSE c - 87

LowerHexChar(d) == IF d < 10 THEN 48 + d ELSE 87 + d
UpperHexChar(d) == IF d < 10 THEN 48 + d ELSE 55 + d

(***************************************************************************)
(* UTF-8                                                                   *)
(***************************************************************************)
IsSurrogate(cp) == cp \in 55296..57343

\* str.encode('utf-8') of one code point (errors='strict': a surrogate
\* raises, see Utf8EncodeOk)
Utf8EncodeChar(cp) ==
    IF cp < 128 THEN <<cp>>
    ELSE IF cp < 2048 THEN <<192 + cp \div 64, 128 + (cp % 64)>>
    ELSE IF cp < 65536
         THEN <<224 + cp \div 4096, 128 + ((cp \div 64) % 64),
                128 + (cp % 64)>>
    ELSE <<240 + cp \div 262144, 128 + ((cp \div 4096) % 64),
           128 + ((cp \div 64) % 64), 128 + (cp % 64)>>

Utf8EncodeOk(s) == \A i \in 1..Len(s) : ~IsSurrogate(s[i])

RECURSIVE Utf8Encode(_)
Utf8Encode(s) ==
    IF s = <<>> THEN <<>> ELSE Utf8EncodeChar(Head(s)) \o Utf8Encode(Tail(s))

\* Items handed to the decoder: a byte is 0..255, a code point that stood
\* literally in the text (non ASCII, never unquoted) is LiteralBase + cp.
LiteralBase == 256

IsCont(b) == b \in 128..191

\* admissible second byte after the lead byte b of a 3 or 4 byte sequence
SecondOk(b, c) ==
    IF b = 224 THEN c \in 160..191
    ELSE IF b = 237 THEN c \in 128..159
    ELSE IF b = 240 THEN c \in 144..191
    ELSE IF b = 244 THEN c \in 128..143
    ELSE IsCont(c)

\* bytes.decode('utf-8', errors='replace'): every maximal ill-formed
\* prefix becomes one U+FFFD
RECURSIVE Utf8Decode(_)
Utf8Decode(bs) ==
    IF bs = <<>> THEN <<>>
    ELSE LET b == bs[1]
             n == Len(bs)
         IN  IF b >= LiteralBase
                 THEN <<b - LiteralBase>> \o Utf8Decode(Tail(bs))
             ELSE IF b < 128 THEN <<b>> \o Utf8Decode(Tail(bs))
             ELSE IF b \in 194..223
                 THEN IF n >= 2 /\ IsCont(bs[2])
                      THEN <<(b - 192) * 64 + (bs[2] - 128)>>
                               \o Utf8Decode(Drop(bs, 2))
                      ELSE <<chReplacement>> \o Utf8Decode(Tail(bs))
             ELSE IF b \in 224..239
                 THEN IF ~(n >= 2 /\ SecondOk(b, bs[2]))
                      THEN <<chReplacement>> \o Utf8Decode(Tail(bs))
                      ELSE IF ~(n >= 3 /\ IsCont(bs[3]))
                      THEN <<chReplacement>> \o Utf8Decode(Drop(bs, 2))
                      ELSE <<(b - 224) * 4096 + (bs[2] - 128) * 64
                               + (bs[3] - 128)>> \o Utf8Decode(Drop(bs, 3))
             ELSE IF b \in 240..244
                 THEN IF ~(n >= 2 /\ SecondOk(b, bs[2]))
                      THEN <<chReplacement>> \o Utf8Decode(Tail(bs))
                      ELSE IF ~(n >= 3 /\ IsCont(bs[3]))
                      THEN <<chReplacement>> \o Utf8Decode(Drop(bs, 2))
                      ELSE IF ~(n >= 4 /\ IsCont(bs[4]))
                      THEN <<chReplacement>> \o Utf8Decode(Drop(bs, 3))
                      ELSE <<(b - 240) * 262144 + (bs[2] - 128) * 4096
                               + (bs[3] - 128) * 64 + (bs[4] - 128)>>
                               \o Utf8Decode(Drop(bs, 4))
             ELSE <<chReplacement>> \o Utf8Decode(Tail(bs))

(***************************************************************************)
(* urllib.parse.quote / unquote                                            *)
(***************************************************************************)
\* the bytes quote() leaves alone: letters, digits, "_.-~" and safe='/'
IsSafeByte(b) ==
    IsDigit(b) \/ IsUpper(b) \/ IsLower(b) \/ b \in {95, 46, 45, 126, 47}

QuoteByte(b) ==
    IF IsSafeByte(b) THEN <<b>>
    ELSE <<chPercent, UpperHexChar(b \div 16), UpperHexChar(b % 16)>>

RECURSIVE QuoteBytes(_)
QuoteBytes(bs) ==
    IF bs = <<>> THEN <<>> ELSE QuoteByte(Head(bs)) \o QuoteBytes(Tail(bs))

\* ulp.quote(s): UTF-8 encode (strict), then escape byte by byte
QuoteOk(s) == Utf8EncodeOk(s)

Quote(s) == QuoteBytes(Utf8Encode(s))

\* ulp.unquote_to_bytes over the text: %XX with two hex digits becomes the
\* byte, anything else stays; a non ASCII code point is kept as a literal
RECURSIVE UnquoteToItems(_)
UnquoteToItems(s) ==
    IF s = <<>> THEN <<>>
    ELSE IF s[1] = chPercent /\ Len(s) >= 3
            /\ IsHexDigit(s[2]) /\ IsHexDigit(s[3])
         THEN <<16 * HexValue(s[2]) + HexValue(s[3])>>
                  \o UnquoteToItems(Drop(s, 3))
    ELSE IF s[1] >= 128
         THEN <<LiteralBase + s[1]>> \o UnquoteToItems(Tail(s))
    ELSE <<s[1]>> \o UnquoteToItems(Tail(s))

\* ulp.unquote(s): encoding='utf-8', errors='replace'
Unquote(s) == Utf8Decode(UnquoteToItems(s))

(***************************************************************************)
(* Python integers: [neg, mag], mag the base 16 digits, most significant   *)
(* first, without leading zeros (zero is [neg |-> FALSE, mag |-> <<>>])    *)
(***************************************************************************)
RECURSIVE StripZeros(_)
StripZeros(ds) ==
    IF ds # <<>> /\ Head(ds) = 0 THEN StripZeros(Tail(ds)) ELSE ds

MkInt(neg, ds) ==
    LET m == StripZeros(ds) IN [neg |-> neg /\ m # <<>>, mag |-> m]

\* the small natural n as a Python integer
RECURSIVE NatDigits(_)
NatDigits(n) == IF n = 0 THEN <<>> ELSE Append(NatDigits(n \div 16), n % 16)

IntOf(n) == IF n < 0 THEN MkInt(TRUE, NatDigits(-n)) ELSE MkInt(FALSE, NatDigits(n))

\* magnitudes: a < b
RECURSIVE LexLess(_, _)
LexLess(a, b) ==
    IF a = <<>> THEN FALSE
    ELSE IF Head(a) # Head(b) THEN Head(a) < Head(b)
    ELSE LexLess(Tail(a), Tail(b))

MagLess(a, b) ==
    IF Len(a) # Len(b) THEN Len(a) < Len(b) ELSE LexLess(a, b)

IntLess(a, b) ==
    IF a.neg /\ ~b.neg THEN TRUE
    ELSE IF ~a.neg /\ b.neg THEN FALSE
    ELSE IF a.neg THEN MagLess(b.mag, a.mag)
    ELSE MagLess(a.mag, b.mag)

\* (mutant) a < b where the code has a <= b
IntLEStrict(a, b) == IntLess(a, b)

\* a <= b
IntLE(a, b) == a = b \/ IntLess(a, b)

\* magnitude + small natural (digits least significant first inside)
RECURSIVE AddCarry(_, _)
AddCarry(rev, c) ==
    IF rev = <<>> THEN (IF c = 0 THEN <<>> ELSE AddCarry(<<0>>, c))
    ELSE <<(Head(rev) + c) % 16>> \o AddCarry(Tail(rev), (Head(rev) + c) \div 16)

RECURSIVE Reverse(_)
Reverse(s) == IF s = <<>> THEN <<>> ELSE Append(Reverse(Tail(s)), Head(s))

\* a + n for a >= 0 and a natural n
IntAddNat(a, n) == MkInt(FALSE, Reverse(AddCarry(Reverse(a.mag), n)))

None == [none |-> TRUE]

(***************************************************************************)
(* int(text, 16)                                                           *)
(***************************************************************************)
\* the white space int() skips: ASCII \t\n\v\f\r and space, and the
\* Unicode spaces above 127, which it first maps to a space
IsIntSpace(c) ==
    \/ c \in 9..13 \/ c = 32
    \/ c \in {133, 160, 5760, 8232, 8233, 8239, 8287, 12288}
    \/ c \in 8192..8202

\* the code points of the digit zero of every block of Unicode decimal
\* digits (category Nd) beyond ASCII; the digits one to nine follow each
DecimalZeros ==
    {1632, 1776, 1984, 2406, 2534, 2662, 2790, 2918, 3046, 3174, 3302, 3430,
     3558, 3664, 3792, 3872, 4160, 4240, 6112, 6160, 6470, 6608, 6784, 6800,
     6992, 7088, 7232, 7248, 42528, 43216, 43264, 43472, 43504, 43600,
     44016, 65296, 66720, 68912, 69734, 69872, 69942, 70096, 70384, 70736,
     70864, 71248, 71360, 71472, 71904, 72016, 72784, 73040, 73120, 92768,
     92864, 93008, 120782, 120792, 120802, 120812, 120822, 123200, 123632,
     125264, 130032}

\* int() maps a Unicode decimal digit to its ASCII digit first
IntDigitChar(c) ==
    IF c >= 128 /\ \E z \in DecimalZeros : c \in z..(z + 9)
    THEN LET z == CHOOSE z \in DecimalZeros : c \in z..(z + 9)
         IN  chZero + (c - z)
    ELSE c

RECURSIVE LStrip(_)
LStrip(s) == IF s # <<>> /\ IsIntSpace(Head(s)) THEN LStrip(Tail(s)) ELSE s

RECURSIVE RStrip(_)
RStrip(s) ==
    IF s # <<>> /\ IsIntSpace(s[Len(s)]) THEN RStrip(SubSeq(s, 1, Len(s) - 1))
    ELSE s

\* digits with single underscores between them: not empty, no underscore
\* first or last, no two in a row
DigitsOk(body) ==
    /\ body # <<>>
    /\ \A i \in 1..Len(body) : IsHexDigit(body[i]) \/ body[i] = chUnderscore
    /\ body[1] # chUnderscore
    /\ body[Len(body)] # chUnderscore
    /\ \A i \in 1..(Len(body) - 1) :
           ~(body[i] = chUnderscore /\ body[i + 1] = chUnderscore)

RECURSIVE DigitValues(_)
DigitValues(body) ==
    IF body = <<>> THEN <<>>
    ELSE IF Head(body) = chUnderscore THEN DigitValues(Tail(body))
    ELSE <<HexValue(Head(body))>> \o DigitValues(Tail(body))

\* int(s, 16): white space around, a sign, a 0x or 0X prefix and one
\* underscore after it are accepted; anything else raises ValueError
IntBase16(s) ==
    LET t == [i \in 1..Len(s) |-> IntDigitChar(s[i])]
        core == RStrip(LStrip(t))
        signed == core # <<>> /\ core[1] \in {chPlus, chMinus}
        neg == core # <<>> /\ core[1] = chMinus
        unsigned == IF signed THEN Tail(core) ELSE core
        prefixed == /\ Len(unsigned) >= 2
                    /\ unsigned[1] = chZero
                    /\ unsigned[2] \in {120, 88}
        afterPrefix == IF prefixed THEN Drop(unsigned, 2) ELSE unsigned
        body == IF prefixed /\ afterPrefix # <<>>
                   /\ afterPrefix[1] = chUnderscore
                THEN Tail(afterPrefix) ELSE afterPrefix
    IN  IF DigitsOk(body)
        THEN [err |-> "none", val |-> MkInt(neg, DigitValues(body))]
        ELSE [err |-> "ValueError", val |-> None]

(***************************************************************************)
(* struct.pack(">I", v) and '{:08x}'.format(v)                             *)
(***************************************************************************)
\* (mutant) no range check
PackOkUnchecked(v) == v # None

\* pack raises struct.error unless 0 <= v <= 2^32 - 1
PackOk(v) == v # None /\ ~v.neg /\ Len(v.mag) <= 8

\* the 4 bytes, big endian
Pack_I(v) ==
    LET ds == Repeat(0, 8 - Len(v.mag)) \o v.mag
    IN  [i \in 1..4 |-> 16 * ds[2 * i - 1] + ds[2 * i]]

\* lowercase hex, zero padded to 8 characters, the sign included in the
\* width
Format08x(v) ==
    LET digits == IF v.mag = <<>> THEN <<chZero>>
                  ELSE [i \in 1..Len(v.mag) |-> LowerHexChar(v.mag[i])]
        sign == IF v.neg THEN <<chMinus>> ELSE <<>>
    IN  sign \o Repeat(chZero, 8 - Len(sign) - Len(digits)) \o digits

(***************************************************************************)
(* hashlib                                                                 *)
(*                                                                         *)
(* A hash object is [name, digest_size, block_size, data]: the algorithm   *)
(* and the bytes absorbed so far.  The algorithm modelled is the default   *)
(* of the factory, SHA-512, computed as FIPS 180-4 defines it.  A 64 bit   *)
(* word is the tuple of its 8 bytes, most significant first.               *)
(***************************************************************************)
\* hashlib.new(hashalg).digest_size
DigestSizeOf(hashalg) == CASE hashalg = "sha512" -> 64

\* hashlib.new(hashalg).block_size
BlockSizeOf(hashalg) == CASE hashalg = "sha512" -> 128

\* bytes of the message length that end the padding
LengthSizeOf(hashalg) == CASE hashalg = "sha512" -> 16

\* the initial hash value H(0), as bytes
InitialHash(hashalg) ==
    CASE hashalg = "sha512" ->
           <<106, 9, 230, 103, 243, 188, 201, 8, 187, 103, 174, 133, 132, 202,
           167, 59, 60, 110, 243, 114, 254, 148, 248, 43, 165, 79, 245, 58,
           95, 29, 54, 241, 81, 14, 82, 127, 173, 230, 130, 209, 155, 5,
           104, 140, 43, 62, 108, 31, 31, 131, 217, 171, 251, 65, 189, 107,
           91, 224, 205, 25, 19, 126, 33, 121>>

HashlibNew(hashalg) ==
    [name |-> hashalg, digest_size |-> DigestSizeOf(hashalg),
     block_size |-> BlockSizeOf(hashalg), data |-> <<>>]

HashCopy(h) == h

HashUpdate(h, bytes) == [h EXCEPT !.data = @ \o bytes]

\* n as size bytes, most significant first
RECURSIVE BigEndian(_, _)
BigEndian(n, size) ==
    IF size = 0 THEN <<>>
    ELSE Append(BigEndian(n \div 256, size - 1), n % 256)

\* the message, the byte 0x80, zeros up to a whole number of blocks, the
\* length of the message in bits
Pad(bytes, hashalg) ==
    LET bs == BlockSizeOf(hashalg)
        ls == LengthSizeOf(hashalg)
        zeros == (bs - ((Len(bytes) + 1 + ls) % bs)) % bs
    IN  bytes \o <<128>> \o Repeat(0, zeros) \o BigEndian(8 * Len(bytes), ls)

\* exclusive or of two numbers below 2^bits
RECURSIVE BitXor(_, _, _)
BitXor(a, b, bits) ==
    IF bits = 0 THEN 0
    ELSE ((a + b) % 2) + 2 * BitXor(a \div 2, b \div 2, bits - 1)

\* BitXor of two bytes, tabulated
XorTable ==
    [a \in 1..256 |-> [b \in 1..256 |-> BitXor(a - 1, b - 1, 8)] \o <<>>]
        \o <<>>

Xor8(a, b) == XorTable[a + 1][b + 1]

\* a + b = (a xor b) + 2 (a and b)
And8(a, b) == (a + b - Xor8(a, b)) \div 2

Xor(p, q) ==
    <<Xor8(p[1], q[1]), Xor8(p[2], q[2]), Xor8(p[3], q[3]), Xor8(p[4], q[4]),
      Xor8(p[5], q[5]), Xor8(p[6], q[6]), Xor8(p[7], q[7]), Xor8(p[8], q[8])>>

And(p, q) ==
    <<And8(p[1], q[1]), And8(p[2], q[2]), And8(p[3], q[3]), And8(p[4], q[4]),
      And8(p[5], q[5]), And8(p[6], q[6]), And8(p[7], q[7]), And8(p[8], q[8])>>

Not(p) ==
    <<255 - p[1], 255 - p[2], 255 - p[3], 255 - p[4], 255 - p[5], 255 - p[6],
      255 - p[7], 255 - p[8]>>

\* the 8 bytes b, preceded by the byte b0, shifted right by r < 8 bits
ShiftBits(b0, b, r) ==
    LET m == 2 ^ r
        u == 2 ^ (8 - r)
    IN  <<(b0 % m) * u + (b[1] \div m), (b[1] % m) * u + (b[2] \div m),
          (b[2] % m) * u + (b[3] \div m), (b[3] % m) * u + (b[4] \div m),
          (b[4] % m) * u + (b[5] \div m), (b[5] % m) * u + (b[6] \div m),
          (b[6] % m) * u + (b[7] \div m), (b[7] % m) * u + (b[8] \div m)>>

\* ROTR^n: the word rotated right by n bits
Rotr(p, n) ==
    LET q == n \div 8
        b == SubSeq(p, 9 - q, 8) \o SubSeq(p, 1, 8 - q)
    IN  ShiftBits(b[8], b, n % 8)

\* the word of a sum given by its byte columns, the carries taken over and
\* the one out of the first column dropped: the sum modulo 2^64
Carry(c1, c2, c3, c4, c5, c6, c7, c8) ==
    LET s7 == c7 + (c8 \div 256)
        s6 == c6 + (s7 \div 256)
        s5 == c5 + (s6 \div 256)
        s4 == c4 + (s5 \div 256)
        s3 == c3 + (s4 \div 256)
        s2 == c2 + (s3 \div 256)
        s1 == c1 + (s2 \div 256)
    IN  <<s1 % 256, s2 % 256, s3 % 256, s4 % 256, s5 % 256, s6 % 256,
          s7 % 256, c8 % 256>>

\* p + q modulo 2^64
Add(p, q) ==
    Carry(p[1] + q[1], p[2] + q[2], p[3] + q[3], p[4] + q[4], p[5] + q[5],
          p[6] + q[6], p[7] + q[7], p[8] + q[8])

\* the six logical functions of SHA-512; SHR^n is ShiftBits(0, p, n)
Ch(p, q, r) == Xor(And(p, q), And(Not(p), r))

Maj(p, q, r) == Xor(Xor(And(p, q), And(p, r)), And(q, r))

BigSigma0(p) == Xor(Xor(Rotr(p, 28), Rotr(p, 34)), Rotr(p, 39))

BigSigma1(p) == Xor(Xor(Rotr(p, 14), Rotr(p, 18)), Rotr(p, 41))

SmallSigma0(p) == Xor(Xor(Rotr(p, 1), Rotr(p, 8)), ShiftBits(0, p, 7))

SmallSigma1(p) == Xor(Xor(Rotr(p, 19), Rotr(p, 61)), ShiftBits(0, p, 6))

\* the 80 round constants
K512 ==
    <<<<66, 138, 47, 152, 215, 40, 174, 34>>, <<113, 55, 68, 145, 35, 239, 101, 205>>,
      <<181, 192, 251, 207, 236, 77, 59, 47>>, <<233, 181, 219, 165, 129, 137, 219, 188>>,
      <<57, 86, 194, 91, 243, 72, 181, 56>>, <<89, 241, 17, 241, 182, 5, 208, 25>>,
      <<146, 63, 130, 164, 175, 25, 79, 155>>, <<171, 28, 94, 213, 218, 109, 129, 24>>,
      <<216, 7, 170, 152, 163, 3, 2, 66>>, <<18, 131, 91, 1, 69, 112, 111, 190>>,
      <<36, 49, 133, 190, 78, 228, 178, 140>>, <<85, 12, 125, 195, 213, 255, 180, 226>>,
      <<114, 190, 93, 116, 242, 123, 137, 111>>, <<128, 222, 177, 254, 59, 22, 150, 177>>,
      <<155, 220, 6, 167, 37, 199, 18, 53>>, <<193, 155, 241, 116, 207, 105, 38, 148>>,
      <<228, 155, 105, 193, 158, 241, 74, 210>>, <<239, 190, 71, 134, 56, 79, 37, 227>>,
      <<15, 193, 157, 198, 139, 140, 213, 181>>, <<36, 12, 161, 204, 119, 172, 156, 101>>,
      <<45, 233, 44, 111, 89, 43, 2, 117>>, <<74, 116, 132, 170, 110, 166, 228, 131>>,
      <<92, 176, 169, 220, 189, 65, 251, 212>>, <<118, 249, 136, 218, 131, 17, 83, 181>>,
      <<152, 62, 81, 82, 238, 102, 223, 171>>, <<168, 49, 198, 109, 45, 180, 50, 16>>,
      <<176, 3, 39, 200, 152, 251, 33, 63>>, <<191, 89, 127, 199, 190, 239, 14, 228>>,
      <<198, 224, 11, 243, 61, 168, 143, 194>>, <<213, 167, 145, 71, 147, 10, 167, 37>>,
      <<6, 202, 99, 81, 224, 3, 130, 111>>, <<20, 41, 41, 103, 10, 14, 110, 112>>,
      <<39, 183, 10, 133, 70, 210, 47, 252>>, <<46, 27, 33, 56, 92, 38, 201, 38>>,
      <<77, 44, 109, 252, 90, 196, 42, 237>>, <<83, 56, 13, 19, 157, 149, 179, 223>>,
      <<101, 10, 115, 84, 139, 175, 99, 222>>, <<118, 106, 10, 187, 60, 119, 178, 168>>,
      <<129, 194, 201, 46, 71, 237, 174, 230>>, <<146, 114, 44, 133, 20, 130, 53, 59>>,
      <<162, 191, 232, 161, 76, 241, 3, 100>>, <<168, 26, 102, 75, 188, 66, 48, 1>>,
      <<194, 75, 139, 112, 208, 248, 151, 145>>, <<199, 108, 81, 163, 6, 84, 190, 48>>,
      <<209, 146, 232, 25, 214, 239, 82, 24>>, <<214, 153, 6, 36, 85, 101, 169, 16>>,
      <<244, 14, 53, 133, 87, 113, 32, 42>>, <<16, 106, 160, 112, 50, 187, 209, 184>>,
      <<25, 164, 193, 22, 184, 210, 208, 200>>, <<30, 55, 108, 8, 81, 65, 171, 83>>,
      <<39, 72, 119, 76, 223, 142, 235, 153>>, <<52, 176, 188, 181, 225, 155, 72, 168>>,
      <<57, 28, 12, 179, 197, 201, 90, 99>>, <<78, 216, 170, 74, 227, 65, 138, 203>>,
      <<91, 156, 202, 79, 119, 99, 227, 115>>, <<104, 46, 111, 243, 214, 178, 184, 163>>,
      <<116, 143, 130, 238, 93, 239, 178, 252>>, <<120, 165, 99, 111, 67, 23, 47, 96>>,
      <<132, 200, 120, 20, 161, 240, 171, 114>>, <<140, 199, 2, 8, 26, 100, 57, 236>>,
      <<144, 190, 255, 250, 35, 99, 30, 40>>, <<164, 80, 108, 235, 222, 130, 189, 233>>,
      <<190, 249, 163, 247, 178, 198, 121, 21>>, <<198, 113, 120, 242, 227, 114, 83, 43>>,
      <<202, 39, 62, 206, 234, 38, 97, 156>>, <<209, 134, 184, 199, 33, 192, 194, 7>>,
      <<234, 218, 125, 214, 205, 224, 235, 30>>, <<245, 125, 79, 127, 238, 110, 209, 120>>,
      <<6, 240, 103, 170, 114, 23, 111, 186>>, <<10, 99, 125, 197, 162, 200, 152, 166>>,
      <<17, 63, 152, 4, 190, 249, 13, 174>>, <<27, 113, 11, 53, 19, 28, 71, 27>>,
      <<40, 219, 119, 245, 35, 4, 125, 132>>, <<50, 202, 171, 123, 64, 199, 36, 147>>,
      <<60, 158, 190, 10, 21, 201, 190, 188>>, <<67, 29, 103, 196, 156, 16, 13, 76>>,
      <<76, 197, 212, 190, 203, 62, 66, 182>>, <<89, 127, 41, 156, 252, 101, 126, 42>>,
      <<95, 203, 111, 171, 58, 214, 250, 236>>, <<108, 68, 25, 140, 74, 71, 88, 23>>>>

\* bytes, a multiple of 8 of them, as words
Words(bytes) ==
    [i \in 1..(Len(bytes) \div 8) |-> SubSeq(bytes, 8 * i - 7, 8 * i)] \o <<>>

\* the message schedule W: the 16 words of the block, extended to 80
RECURSIVE Schedule(_)
Schedule(w) ==
    IF Len(w) >= 80 THEN w
    ELSE LET t == Len(w) + 1
         IN  Schedule(Append(w, Add(Add(SmallSigma1(w[t - 2]), w[t - 7]),
                                    Add(SmallSigma0(w[t - 15]), w[t - 16]))))

\* the working variables a..h after a round whose T1 and T2 are t1 and t2
Step(v, t1, t2) ==
    <<Add(t1, t2), v[1], v[2], v[3], Add(v[4], t1), v[5], v[6], v[7]>>

\* the working variables a..h after the rounds t..80
RECURSIVE Rounds(_, _, _)
Rounds(v, w, t) ==
    IF Len(v) # 8 \/ t > 80 THEN v
    ELSE Rounds(Step(v,
                     Add(Add(Add(v[8], BigSigma1(v[5])),
                             Ch(v[5], v[6], v[7])),
                         Add(K512[t], w[t])),
                     Add(BigSigma0(v[1]), Maj(v[1], v[2], v[3]))),
                w, t + 1)

\* the words of h and v added one by one, as bytes
AddWords(h, v) ==
    Add(h[1], v[1]) \o Add(h[2], v[2]) \o Add(h[3], v[3]) \o Add(h[4], v[4])
        \o Add(h[5], v[5]) \o Add(h[6], v[6]) \o Add(h[7], v[7])
        \o Add(h[8], v[8])

\* the compression function: the hash value after one more block
Compress(state, block) ==
    AddWords(Words(state),
             Rounds(Words(state), Schedule(Words(block)), 1))

\* the hash value after the blocks of padded
RECURSIVE Absorb(_, _, _)
Absorb(state, padded, bs) ==
    IF padded = <<>> THEN state
    ELSE Absorb(Compress(state, Take(padded, bs)), Drop(padded, bs), bs)

\* hash.digest(): digest_size bytes
HashDigest(h) ==
    Absorb(InitialHash(h.name), Pad(h.data, h.name), h.block_size)

\* the bytes d as lowercase hex characters, two a byte
HexOf(d) ==
    [i \in 1..(2 * Len(d)) |->
        IF i % 2 = 1 THEN LowerHexChar(d[(i + 1) \div 2] \div 16)
        ELSE LowerHexChar(d[i \div 2] % 16)] \o <<>>

\* hash.hexdigest(): 2 * digest_size lowercase hex characters
HashHexDigest(h) == HexOf(HashDigest(h))

(***************************************************************************)
(* TicketFactory                                                           *)
(***************************************************************************)
_DEFAULT_TIMEOUT == 120

\* an address is [version, packed]; ipaddress.IPv4Address('0.0.0.0')
_DEFAULT_IP == [version |-> 4, packed |-> <<0, 0, 0, 0>>]

\* __init__(secret, hashalg)
TicketFactory(secret, hashalg) ==
    [secret |-> secret, hash |-> HashlibNew(hashalg)]

\* the two hash objects _hexdigest fills
Hash0(self, data0, data1) ==
    HashUpdate(HashCopy(self.hash), data0 \o self.secret \o data1)

Hash1(self, hash0) ==
    HashUpdate(HashCopy(self.hash), HashDigest(hash0) \o self.secret)

_hexdigest(self, data0, data1) ==
    HashHexDigest(Hash1(self, Hash0(self, data0, data1)))

_min_ticket_size(self) == self.hash.digest_size * 2 + 8

\* ','.join(quote(t) for t in tokens), '' without tokens
TokenStr(tokens) ==
    IF tokens = <<>> THEN <<>>
    ELSE Join(<<chComma>>, [i \in 1..Len(tokens) |-> Quote(tokens[i])])

\* (mutant) the address is left out of the digest
Data0NoIp(ip, valid_until) == Pack_I(valid_until)

\* bytes([ip.version]) + ip.packed + pack(">I", valid_until)
Data0(ip, valid_until) == <<ip.version>> \o ip.packed \o Pack_I(valid_until)

\* '\0'.join((user_id, token_str, user_str)).encode('utf-8')
Data1(user_id, token_str, user_str) ==
    Utf8Encode(Join(<<0>>, <<user_id, token_str, user_str>>))

\* valid_until, defaulted (lines 38-39); clock is time.time() at the call
Until(valid_until, clock) ==
    IF valid_until = None THEN IntAddNat(clock, _DEFAULT_TIMEOUT)
    ELSE valid_until

\* '' if not user_data else quote(user_data)
UserStr(user_data) == IF user_data = <<>> THEN <<>> ELSE Quote(user_data)

\* self._DEFAULT_IP if client_ip is None else ip_address(client_ip)
IpOf(client_ip) == IF client_ip = None THEN _DEFAULT_IP ELSE client_ip

\* the exception new raises before it asks for the digest, "none" if none:
\* quote refuses a lone surrogate, pack a value outside 0..2^32-1
NewRaises(user_id, tokens, user_data, until) ==
    IF ~(/\ QuoteOk(user_id)
         /\ \A i \in 1..Len(tokens) : QuoteOk(tokens[i])
         /\ QuoteOk(user_data))
    THEN "UnicodeEncodeError"
    ELSE IF ~PackOk(until) THEN "struct.error"
    ELSE "none"

\* '!'.join(('{0}{1:08x}{2}'.format(digest, valid_until, user_id),
\*           token_str, user_str))
TicketText(digest, until, quoted_id, token_str, user_str) ==
    Join(<<chBang>>,
         <<digest \o Format08x(until) \o quoted_id, token_str, user_str>>)

\* new(user_id, tokens, user_data, valid_until, client_ip).  tokens=None
\* and user_data=None take the branches of the empty sequence and the
\* empty string, and are passed so.
new(self, user_id, tokens, user_data, valid_until, client_ip, clock) ==
    LET until == Until(valid_until, clock)
        raised == NewRaises(user_id, tokens, user_data, until)
        digest == _hexdigest(self, Data0(IpOf(client_ip), until),
                             Data1(Quote(user_id), TokenStr(tokens),
                                   UserStr(user_data)))
    IN  IF raised # "none" THEN [err |-> raised, val |-> <<>>]
        ELSE [err |-> "none",
              val |-> TicketText(digest, until, Quote(user_id),
                                 TokenStr(tokens), UserStr(user_data))]

NoInfo ==
    [digest |-> <<>>, user_id |-> <<>>, tokens |-> <<>>, user_data |-> <<>>,
     valid_until |-> None]

\* parse(ticket): the TicketInfo, or TicketParseError with its reason
parse(self, ticket) ==
    LET digest_len == self.hash.digest_size * 2
        time_len == 8
        time == IntBase16(SubSeq(ticket, digest_len + 1, digest_len + time_len))
        parts == Split(Drop(ticket, digest_len + time_len), chBang)
    IN  IF Len(ticket) < _min_ticket_size(self)
        THEN [err |-> "TicketParseError", reason |-> "Invalid ticket length",
              val |-> NoInfo]
        ELSE IF time.err # "none"
        THEN [err |-> "TicketParseError", reason |-> "Invalid time field",
              val |-> NoInfo]
        ELSE IF Len(parts) # 3
        THEN [err |-> "TicketParseError", reason |-> "Missing parts",
              val |-> NoInfo]
        ELSE [err |-> "none", reason |-> "",
              val |-> [digest |-> Take(ticket, digest_len),
                       user_id |-> Unquote(parts[1]),
                       tokens |-> IF parts[2] = <<>> THEN <<>>
                                  ELSE LET ts == Split(parts[2], chComma)
                                       IN  [i \in 1..Len(ts) |-> Unquote(ts[i])],
                       user_data |-> Unquote(parts[3]),
                       valid_until |-> time.val]]

\* (mutant) the last character of the digest is not compared
DigestMatchesPrefix(new_ticket, digest, digest_len) ==
    Take(new_ticket, digest_len - 1) = Take(digest, digest_len - 1)

\* new_ticket[:digest_size * 2] != parts.digest, negated
DigestMatches(new_ticket, digest, digest_len) ==
    Take(new_ticket, digest_len) = digest

Raise(err) == [err |-> err, reason |-> "", val |-> NoInfo]

\* lines 74-77 of validate, new_ticket being what new returned or raised:
\* the digest check
DigestCheck(parts, new_ticket, digest_len) ==
    IF new_ticket.err # "none" THEN Raise(new_ticket.err)
    ELSE IF ~DigestMatches(new_ticket.val, parts.digest, digest_len)
    THEN Raise("TicketDigestError")
    ELSE [err |-> "none", reason |-> "", val |-> parts]

\* lines 79-85 of validate, reached when lines 71-77 raised nothing: the
\* expiry check; clock is time.time() at the call
ExpiryCheck(checked, now, clock) ==
    LET at == IF now = None THEN clock ELSE now
    IN  IF checked.err # "none" THEN checked
        ELSE IF IntLE(checked.val.valid_until, at) THEN Raise("TicketExpired")
        ELSE checked

\* lines 71-77 of validate: parse, new on the parsed fields, the digest check
Remade(self, ticket, client_ip, clock) ==
    LET parsed == parse(self, ticket)
        parts == parsed.val
    IN  IF parsed.err # "none" THEN parsed
        ELSE DigestCheck(parts,
                         new(self, parts.user_id, parts.tokens,
                             parts.user_data, parts.valid_until, client_ip,
                             clock),
                         self.hash.digest_size * 2)

\* validate(ticket, client_ip, now)
validate(self, ticket, client_ip, now, clock) ==
    ExpiryCheck(Remade(self, ticket, client_ip, clock), now, clock)

(***************************************************************************)
(* The state machine.                                                      *)
(*                                                                         *)
(* A server holds one factory; a client is handed the ticket a call of new *)
(* returned, may alter it, and presents it to parse or validate.           *)
(*   issued   the call of new whose ticket the client holds (NoCall before)*)
(*   held     the text in the client's hands                               *)
(*   accepted the call of validate that accepted the text before one       *)
(*            character of its digest was replaced (NoCall when none was)  *)
(*   outcome  the last other call made on the factory, with its result     *)
(*   heap     the hash objects: the factory's _hash at BaseRef, and the    *)
(*            copies the running calls of _hexdigest hold (Free otherwise) *)
(*   frame    per thread, the call it is in and that call's locals (used   *)
(*            by SpecConc, where the calls run statement by statement)     *)
(***************************************************************************)
VARIABLES issued, held, accepted, outcome, heap, frame

vars == <<issued, held, accepted, outcome, heap, frame>>

\* b"s3"
Secret == <<115, 51>>

\* TicketFactory(b"s3"), freshly constructed
Factory == TicketFactory(Secret, "sha512")

NumThreads == 2

Threads == 1..NumThreads

\* references to hash objects: the factory's, and each thread's locals
\* hash0 and hash1
BaseRef == 0
Hash0Ref(t) == 2 * t - 1
Hash1Ref(t) == 2 * t
Refs == 0..(2 * NumThreads)

\* the factory as a call finds it
Self == [secret |-> Secret, hash |-> heap[BaseRef]]

Idle == [pc |-> "idle"]

\* a cell of the heap that holds no object
Free == [name |-> "free"]

\* time.time() is read only for the defaults of valid_until and now, which
\* the calls below always give
Clock == IntOf(0)

NoCall == [op |-> "none"]

Args(user_id, tokens, user_data, valid_until, client_ip) ==
    [user_id |-> user_id, tokens |-> tokens, user_data |-> user_data,
     valid_until |-> valid_until, client_ip |-> client_ip]

CallNew(a) ==
    [op |-> "new", args |-> a,
     res |-> new(Self, a.user_id, a.tokens, a.user_data, a.valid_until,
                 a.client_ip, Clock)]

CallParse(t) == [op |-> "parse", ticket |-> t, res |-> parse(Self, t)]

\* the calls validate(t, c, now) with c in IPs and now in Times, and what
\* they return or raise
ValidateCalls(t, IPs, Times) ==
    UNION {LET checked == Remade(Self, t, c, Clock)
           IN  {[op |-> "validate", ticket |-> t, client_ip |-> c,
                 now |-> now, res |-> ExpiryCheck(checked, now, Clock)] :
                   now \in Times} : c \in IPs}

\* ---- the inputs ----
MaxTokens == 2

RECURSIVE SeqsUpTo(_, _)
SeqsUpTo(S, n) ==
    IF n = 0 THEN {<<>>}
    ELSE LET shorter == SeqsUpTo(S, n - 1)
         IN  shorter \cup {Append(q, e) : q \in {r \in shorter : Len(r) = n - 1},
                                          e \in S}

\* "!" NUL "e-acute", ""
UserIds == {<<33, 0, 233>>, <<>>}

\* "", ",%"
TokenStrings == {<<>>, <<44, 37>>}

TokenSeqs == SeqsUpTo(TokenStrings, MaxTokens)

\* "", "%21"
UserDatas == {<<>>, <<37, 50, 49>>}

Two32 == MkInt(FALSE, <<1, 0, 0, 0, 0, 0, 0, 0, 0>>)
Two32Minus1 == MkInt(FALSE, <<15, 15, 15, 15, 15, 15, 15, 15>>)

ValidUntils == {IntOf(0), IntOf(5), Two32Minus1, Two32, IntOf(-1)}

\* -1, 0, 4, 5, 2^32 - 2, 2^32 - 1
Nows ==
    {IntOf(-1), IntOf(0), IntOf(4), IntOf(5),
     MkInt(FALSE, <<15, 15, 15, 15, 15, 15, 15, 14>>), Two32Minus1}

IPv4(a, b, c, d) == [version |-> 4, packed |-> <<a, b, c, d>>]
IPv6(last) == [version |-> 6, packed |-> Repeat(0, 15) \o <<last>>]

\* omitted, 0.0.0.0, 10.0.0.1, 10.0.0.2 and ::
ClientIps == {None, IPv4(0, 0, 0, 0), IPv4(10, 0, 0, 1), IPv4(10, 0, 0, 2),
              IPv6(0)}

\* every text with one time and no address; every time with one text,
\* without and with an address
IssueArgs ==
    {Args(u, t, d, IntOf(5), None) :
        u \in UserIds, t \in TokenSeqs, d \in UserDatas}
    \cup {Args(<<33, 0>>, <<>>, <<>>, v, c) :
              v \in ValidUntils, c \in {None, IPv4(10, 0, 0, 1)}}

Init ==
    /\ issued = NoCall
    /\ held = <<>>
    /\ accepted = NoCall
    /\ outcome = NoCall
    /\ heap = [r \in Refs |-> IF r = BaseRef THEN Factory.hash ELSE Free]
    /\ frame = [t \in Threads |-> Idle]

\* the server issues a ticket: new(...)
Issue(S) ==
    /\ issued = NoCall
    /\ \E a \in S :
          /\ issued' = CallNew(a)
          /\ held' = issued'.res.val
    /\ UNCHANGED <<accepted, outcome, heap, frame>>

\* the client presents its ticket: parse(ticket)
Parse ==
    /\ issued # NoCall
    /\ issued.res.err = "none"
    /\ outcome = NoCall
    /\ outcome' = CallParse(held)
    /\ UNCHANGED <<issued, held, accepted, heap, frame>>

\* the client presents its ticket: validate(ticket, client_ip, now)
Validate(IPs, Times) ==
    /\ issued # NoCall
    /\ issued.res.err = "none"
    /\ outcome = NoCall
    /\ \E call \in ValidateCalls(held, IPs, Times) : outcome' = call
    /\ UNCHANGED <<issued, held, accepted, heap, frame>>

\* the caller takes the result of the call; the next call can follow
Return ==
    /\ outcome # NoCall
    /\ outcome' = NoCall
    /\ UNCHANGED <<issued, held, accepted, heap, frame>>

NextIssue == Issue(IssueArgs) \/ Parse \/ Validate(ClientIps, Nows) \/ Return

SpecIssue == Init /\ [][NextIssue]_vars

\* ---- two calls of new on one factory ----
\* calls that differ from new("a", (), "", 5) in one argument: the
\* user_id ("a%00", "a" NUL), the tokens (made of "" and ","; ("a",)), the
\* user_data, the time, the address
BindingArgs ==
    {Args(u, <<>>, <<>>, IntOf(5), None) :
        u \in {<<97>>, <<97, 37, 48, 48>>, <<97, 0>>}}
    \cup {Args(<<97>>, t, <<>>, IntOf(5), None) :
              t \in SeqsUpTo({<<>>, <<44>>}, MaxTokens) \cup {<<<<97>>>>}}
    \cup {Args(<<97>>, <<>>, <<97>>, IntOf(5), None),
          Args(<<97>>, <<>>, <<>>, IntOf(6), None),
          Args(<<97>>, <<>>, <<>>, IntOf(5), IPv4(10, 0, 0, 1)),
          Args(<<97>>, <<>>, <<>>, IntOf(5), IPv4(0, 0, 0, 0))}

\* a second call of new, while the first ticket is out
NewAgain(S) ==
    /\ issued # NoCall
    /\ issued.res.err = "none"
    /\ outcome = NoCall
    /\ \E a \in S : outcome' = CallNew(a)
    /\ UNCHANGED <<issued, held, accepted, heap, frame>>

NextBinding == Issue(BindingArgs) \/ NewAgain(BindingArgs) \/ Return

SpecBinding == Init /\ [][NextBinding]_vars

\* ---- a client that alters its ticket ----
\* new("a", (), "", 5) and new("a", ("a", ","), "a", 5, "10.0.0.1")
AttackArgs ==
    {Args(<<97>>, <<>>, <<>>, IntOf(5), None),
     Args(<<97>>, <<<<97>>, <<44>>>>, <<97>>, IntOf(5), IPv4(10, 0, 0, 1))}

\* what the client writes in place of the 8 characters of the time field:
\* "00000005" "00000006" "00000004" "ffffffff" "0000000A" "0000000g"
\* "+0000005" "-0000001" "-0000000" "0x000005" "0X_0_0_5" "0_000005"
\* " 0000005" "0000005" TAB, "5" NBSP*7, "0000000" and the Devanagari digit
\* five, and the digits 0 0 0 0 0 0 0 9 of which four are not ASCII
TimeFields ==
    {<<48, 48, 48, 48, 48, 48, 48, 53>>, <<48, 48, 48, 48, 48, 48, 48, 54>>,
     <<48, 48, 48, 48, 48, 48, 48, 52>>,
     <<102, 102, 102, 102, 102, 102, 102, 102>>,
     <<48, 48, 48, 48, 48, 48, 48, 65>>, <<48, 48, 48, 48, 48, 48, 48, 103>>,
     <<43, 48, 48, 48, 48, 48, 48, 53>>, <<45, 48, 48, 48, 48, 48, 48, 49>>,
     <<45, 48, 48, 48, 48, 48, 48, 48>>, <<48, 120, 48, 48, 48, 48, 48, 53>>,
     <<48, 88, 95, 48, 95, 48, 95, 53>>, <<48, 95, 48, 48, 48, 48, 48, 53>>,
     <<32, 48, 48, 48, 48, 48, 48, 53>>, <<48, 48, 48, 48, 48, 48, 53, 9>>,
     <<53, 160, 160, 160, 160, 160, 160, 160>>,
     <<48, 48, 48, 48, 48, 48, 48, 2411>>,
     <<120782, 65296, 1632, 48, 48, 48, 48, 120831>>}

\* what the client writes after the time field:
\* "a!!" "%61!!" "b!!" "a!" "a!!!" "" "a!a,%2C!a" "a!a,%2c!%61" "a!,!"
\* U+D800 "!!" and "a!!%ED%A0%80"
Rests ==
    {<<97, 33, 33>>, <<37, 54, 49, 33, 33>>, <<98, 33, 33>>, <<97, 33>>,
     <<97, 33, 33, 33>>, <<>>,
     <<97, 33, 97, 44, 37, 50, 67, 33, 97>>,
     <<97, 33, 97, 44, 37, 50, 99, 33, 37, 54, 49>>,
     <<97, 33, 44, 33>>, <<55296, 33, 33>>,
     <<97, 33, 33, 37, 69, 68, 37, 65, 48, 37, 56, 48>>}

\* the positions of the digest the client may overwrite, and with what:
\* '0' and 'F'
TamperPositions == {1, DigestSizeOf("sha512"), 2 * DigestSizeOf("sha512")}

TamperChars == {48, 70}

\* the client holds the ticket as it was issued
CanRewrite ==
    /\ issued # NoCall
    /\ issued.res.err = "none"
    /\ outcome = NoCall
    /\ held = issued.res.val

RewriteTime ==
    /\ CanRewrite
    /\ Len(held) >= _min_ticket_size(Factory)
    /\ \E field \in TimeFields :
          /\ held' = Take(held, 2 * Factory.hash.digest_size) \o field
                           \o Drop(held, _min_ticket_size(Factory))
          /\ held' # held
    /\ UNCHANGED <<issued, accepted, outcome, heap, frame>>

RewriteRest ==
    /\ CanRewrite
    /\ Len(held) >= _min_ticket_size(Factory)
    /\ \E rest \in Rests :
          /\ held' = Take(held, _min_ticket_size(Factory)) \o rest
          /\ held' # held
    /\ UNCHANGED <<issued, accepted, outcome, heap, frame>>

\* the client cuts the ticket one character short of the shortest length
Truncate ==
    /\ CanRewrite
    /\ Len(held) >= _min_ticket_size(Factory)
    /\ held' = Take(held, _min_ticket_size(Factory) - 1)
    /\ UNCHANGED <<issued, accepted, outcome, heap, frame>>

\* the client replaces one character of the digest of a ticket validate
\* has just accepted by another one
TamperDigest ==
    /\ outcome.op = "validate"
    /\ outcome.res.err = "none"
    /\ accepted = NoCall
    /\ accepted' = outcome
    /\ outcome' = NoCall
    /\ \E pos \in TamperPositions, ch \in TamperChars :
          /\ pos <= Len(held)
          /\ ch # held[pos]
          /\ held' = [held EXCEPT ![pos] = ch]
    /\ UNCHANGED <<issued, heap, frame>>

NextAttack ==
    \/ Issue(AttackArgs)
    \/ RewriteTime
    \/ RewriteRest
    \/ Truncate
    \/ TamperDigest
    \/ Parse
    \/ Validate({None, IPv4(10, 0, 0, 1)}, {IntOf(4), IntOf(5)})
    \/ Return

SpecAttack == Init /\ [][NextAttack]_vars

\* ---- threads calling one factory, statement by statement ----
\* (mutant) the copy is the object itself
CopyRefShared(src, fresh) == src

\* hash.copy() returns a new object: the reference it gives, for a copy of
\* the object at src going to the free cell fresh
CopyRef(src, fresh) == fresh

\* a thread's calls of new: one that returns a ticket, one that raises
ConcArgs ==
    {Args(<<33>>, <<<<97>>>>, <<98>>, IntOf(6), IPv4(10, 0, 0, 1)),
     Args(<<97>>, <<>>, <<>>, Two32, None)}

\* the texts a thread parses and validates: a ticket the factory issued,
\* and its first 10 characters
ConcTickets ==
    LET t == new(Factory, <<97>>, <<>>, <<>>, IntOf(5), None, Clock).val
    IN  {t, Take(t, 10)}

\* the calls the threads make: validate is called without an address, at 4
ConcCalls ==
    {[op |-> "new", args |-> a] : a \in ConcArgs}
    \cup {[op |-> "parse", ticket |-> tk] : tk \in ConcTickets}
    \cup {[op |-> "validate", ticket |-> tk, client_ip |-> None,
           now |-> IntOf(4)] : tk \in ConcTickets}

\* the locals of new from line 59 on
NewFrame(op, a, parts, now) ==
    [pc |-> "copy0", op |-> op, args |-> a, parts |-> parts, now |-> now,
     data0 |-> Data0(IpOf(a.client_ip), Until(a.valid_until, Clock)),
     data1 |-> Data1(Quote(a.user_id), TokenStr(a.tokens),
                     UserStr(a.user_data)),
     hash0 |-> BaseRef, hash1 |-> BaseRef]

Done(fr, res) == [pc |-> "done", call |-> fr, res |-> res]

\* new(...) is called: lines 38-58, up to the call of _hexdigest
BeginNew(t) ==
    /\ frame[t] = Idle
    /\ \E call \in {c \in ConcCalls : c.op = "new"} :
          LET a == call.args
              raised == NewRaises(a.user_id, a.tokens, a.user_data,
                                  Until(a.valid_until, Clock))
          IN  frame' = [frame EXCEPT ![t] =
                           IF raised # "none"
                           THEN Done(call, [err |-> raised, val |-> <<>>])
                           ELSE NewFrame("new", a, NoInfo, None)]
    /\ UNCHANGED <<issued, held, accepted, outcome, heap>>

\* parse(ticket) is called and returns
BeginParse(t) ==
    /\ frame[t] = Idle
    /\ \E call \in {c \in ConcCalls : c.op = "parse"} :
          frame' = [frame EXCEPT ![t] =
                       Done(call, parse(Self, call.ticket))]
    /\ UNCHANGED <<issued, held, accepted, outcome, heap>>

\* validate(ticket, client_ip, now) is called: line 71, and line 74 up to
\* the call of _hexdigest
BeginValidate(t) ==
    /\ frame[t] = Idle
    /\ \E call \in {c \in ConcCalls : c.op = "validate"} :
          LET parsed == parse(Self, call.ticket)
              p == parsed.val
              a == Args(p.user_id, p.tokens, p.user_data, p.valid_until,
                        call.client_ip)
              raised == NewRaises(p.user_id, p.tokens, p.user_data,
                                  p.valid_until)
          IN  frame' = [frame EXCEPT ![t] =
                           IF parsed.err # "none" THEN Done(call, parsed)
                           ELSE IF raised # "none"
                           THEN Done(call, Raise(raised))
                           ELSE NewFrame("validate", a, p, call.now)
                                    @@ [ticket |-> call.ticket]]
    /\ UNCHANGED <<issued, held, accepted, outcome, heap>>

\* line 121: hash0 = self._hash.copy()
Copy0(t) ==
    /\ frame[t].pc = "copy0"
    /\ heap' = [heap EXCEPT ![CopyRef(BaseRef, Hash0Ref(t))] = heap[BaseRef]]
    /\ frame' = [frame EXCEPT ![t].pc = "update0",
                              ![t].hash0 = CopyRef(BaseRef, Hash0Ref(t))]
    /\ UNCHANGED <<issued, held, accepted, outcome>>

\* line 122: hash0.update(data0 + self._secret + data1)
Update0(t) ==
    /\ frame[t].pc = "update0"
    /\ heap' = [heap EXCEPT ![frame[t].hash0] =
                   HashUpdate(@, frame[t].data0 \o Self.secret
                                     \o frame[t].data1)]
    /\ frame' = [frame EXCEPT ![t].pc = "copy1"]
    /\ UNCHANGED <<issued, held, accepted, outcome>>

\* line 124: hash1 = self._hash.copy()
Copy1(t) ==
    /\ frame[t].pc = "copy1"
    /\ heap' = [heap EXCEPT ![CopyRef(BaseRef, Hash1Ref(t))] = heap[BaseRef]]
    /\ frame' = [frame EXCEPT ![t].pc = "update1",
                              ![t].hash1 = CopyRef(BaseRef, Hash1Ref(t))]
    /\ UNCHANGED <<issued, held, accepted, outcome>>

\* line 125: hash1.update(hash0.digest() + self._secret)
Update1(t) ==
    /\ frame[t].pc = "update1"
    /\ heap' = [heap EXCEPT ![frame[t].hash1] =
                   HashUpdate(@, HashDigest(heap[frame[t].hash0])
                                     \o Self.secret)]
    /\ frame' = [frame EXCEPT ![t].pc = "hexdigest"]
    /\ UNCHANGED <<issued, held, accepted, outcome>>

\* line 126 and lines 62-64: _hexdigest returns, its two hash objects are
\* dropped, and new returns the ticket; in validate, lines 76-85 follow
HexDigest(t) ==
    /\ frame[t].pc = "hexdigest"
    /\ LET fr == frame[t]
           a == fr.args
           text == TicketText(HashHexDigest(heap[fr.hash1]),
                              Until(a.valid_until, Clock), Quote(a.user_id),
                              TokenStr(a.tokens), UserStr(a.user_data))
       IN  /\ frame' = [frame EXCEPT ![t] =
                  IF fr.op = "new"
                  THEN Done([op |-> "new", args |-> a],
                            [err |-> "none", val |-> text])
                  ELSE Done([op |-> "validate", ticket |-> fr.ticket,
                             client_ip |-> a.client_ip, now |-> fr.now],
                            ExpiryCheck(
                                DigestCheck(fr.parts,
                                            [err |-> "none", val |-> text],
                                            Self.hash.digest_size * 2),
                                fr.now, Clock))]
           /\ heap' = [r \in Refs |->
                          IF r # BaseRef /\ r \in {fr.hash0, fr.hash1}
                          THEN Free ELSE heap[r]]
    /\ UNCHANGED <<issued, held, accepted, outcome>>

\* the caller has the result; the thread is free for its next call
ReturnT(t) ==
    /\ frame[t].pc = "done"
    /\ frame' = [frame EXCEPT ![t] = Idle]
    /\ UNCHANGED <<issued, held, accepted, outcome, heap>>

NextConc ==
    \E t \in Threads :
        \/ BeginNew(t)
        \/ BeginParse(t)
        \/ BeginValidate(t)
        \/ Copy0(t)
        \/ Update0(t)
        \/ Copy1(t)
        \/ Update1(t)
        \/ HexDigest(t)
        \/ ReturnT(t)

SpecConc == Init /\ [][NextConc]_vars

(***************************************************************************)
(* The claims                                                              *)
(***************************************************************************)
IssuedOk == issued # NoCall /\ issued.res.err = "none"

DigestLen == 2 * Factory.hash.digest_size

\* an omitted client_ip counts as the sentinel 0.0.0.0
EffectiveIp(c) == IF c = None THEN IPv4(0, 0, 0, 0) ELSE c

InRange32(v) == IntLE(IntOf(0), v) /\ IntLE(v, Two32Minus1)

IsLowerHexDigit(c) == c \in 48..57 \/ c \in 97..102

Count(s, c) == Cardinality({i \in 1..Len(s) : s[i] = c})

\* C1 (as claimed): parse of a ticket new returned gives back the user_id,
\* tokens, user_data and valid_until that were passed to new.
C1_RoundTrip ==
    (IssuedOk /\ outcome.op = "parse" /\ outcome.ticket = issued.res.val)
    => /\ outcome.res.err = "none"
       /\ outcome.res.val.user_id = issued.args.user_id
       /\ outcome.res.val.tokens = issued.args.tokens
       /\ outcome.res.val.user_data = issued.args.user_data
       /\ outcome.res.val.valid_until = issued.args.valid_until

\* C1, what does hold: the round trip is exact unless the tokens are the
\* one-element sequence holding the empty string, which parse returns as
\* the empty sequence.
C1_RoundTripButOneEmptyToken ==
    (IssuedOk /\ outcome.op = "parse" /\ outcome.ticket = issued.res.val)
    => /\ outcome.res.err = "none"
       /\ outcome.res.val.user_id = issued.args.user_id
       /\ outcome.res.val.tokens =
              (IF issued.args.tokens = <<<<>>>> THEN <<>>
               ELSE issued.args.tokens)
       /\ outcome.res.val.user_data = issued.args.user_data
       /\ outcome.res.val.valid_until = issued.args.valid_until

\* C2: an unmodified issued ticket, validated with the client_ip it was
\* issued for, is accepted with the parsed fields when valid_until > now
\* and raises TicketExpired when valid_until <= now; nothing else happens.
C2_ExpiryBoundary ==
    (/\ IssuedOk
     /\ outcome.op = "validate"
     /\ outcome.ticket = issued.res.val
     /\ outcome.client_ip = issued.args.client_ip)
    => IF IntLess(outcome.now, issued.args.valid_until)
       THEN /\ outcome.res.err = "none"
            /\ outcome.res.val = parse(Factory, issued.res.val).val
            /\ outcome.res.val.valid_until = issued.args.valid_until
       ELSE outcome.res.err = "TicketExpired"

\* a ticket that expires at 5 is accepted at 4, with the address it was
\* issued for
C2_Witness ==
    /\ IssuedOk
    /\ issued.args.valid_until = IntOf(5)
    /\ issued.args.client_ip = IPv4(10, 0, 0, 1)
    /\ outcome.op = "validate"
    /\ outcome.client_ip = issued.args.client_ip
    /\ outcome.now = IntOf(4)
    /\ outcome.res.err = "none"

\* C4: an unmodified issued ticket passes the digest check exactly when
\* validate is given the address it was issued for (an omitted address
\* being 0.0.0.0); with any other address, of either IP version, validate
\* raises TicketDigestError.
C4_IpBinding ==
    (IssuedOk /\ outcome.op = "validate" /\ outcome.ticket = issued.res.val)
    => IF EffectiveIp(outcome.client_ip) = EffectiveIp(issued.args.client_ip)
       THEN outcome.res.err \in {"none", "TicketExpired"}
       ELSE outcome.res.err = "TicketDigestError"

\* a ticket issued for 10.0.0.1, not yet expired, presented without an
\* address, is refused
C4_Witness ==
    /\ IssuedOk
    /\ issued.args.client_ip = IPv4(10, 0, 0, 1)
    /\ issued.args.valid_until = IntOf(5)
    /\ outcome.op = "validate"
    /\ outcome.client_ip = None
    /\ outcome.now = IntOf(4)
    /\ outcome.res.err = "TicketDigestError"

\* C7 (as claimed): two calls of new whose inputs differ (an omitted
\* client_ip being 0.0.0.0) return tickets with different digests.
C7_FieldBinding ==
    (/\ IssuedOk
     /\ outcome.op = "new"
     /\ outcome.res.err = "none"
     /\ [outcome.args EXCEPT !.client_ip = EffectiveIp(@)]
            # [issued.args EXCEPT !.client_ip = EffectiveIp(@)])
    => Take(outcome.res.val, DigestLen) # Take(issued.res.val, DigestLen)

\* C7, what does hold: the digests differ unless the two calls differ only
\* in that one has no tokens and the other the single empty token.
DropEmptyToken(a) ==
    [a EXCEPT !.client_ip = EffectiveIp(@),
              !.tokens = IF @ = <<<<>>>> THEN <<>> ELSE @]

C7_FieldBindingButOneEmptyToken ==
    (/\ IssuedOk
     /\ outcome.op = "new"
     /\ outcome.res.err = "none"
     /\ DropEmptyToken(outcome.args) # DropEmptyToken(issued.args))
    => Take(outcome.res.val, DigestLen) # Take(issued.res.val, DigestLen)

\* C10: new returns a ticket exactly when valid_until is in 0..2^32-1; the
\* ticket then carries valid_until as 8 lowercase hex digits right after
\* the digest, has two '!' after them, and parse accepts it.
C10_TimeFieldWidth ==
    (issued # NoCall)
    => /\ (issued.res.err = "none") = InRange32(issued.args.valid_until)
       /\ issued.res.err = "none" =>
            LET t == issued.res.val
                field == SubSeq(t, DigestLen + 1, DigestLen + 8)
            IN  /\ Len(t) >= DigestLen + 8
                /\ \A i \in 1..8 : IsLowerHexDigit(field[i])
                /\ MkInt(FALSE, [i \in 1..8 |-> HexValue(field[i])])
                       = issued.args.valid_until
                /\ Count(Drop(t, DigestLen + 8), chBang) = 2
                /\ parse(Factory, t).err = "none"

\* the largest valid_until, with a '!' in the user_id
C10_Witness ==
    /\ IssuedOk
    /\ issued.args.valid_until = Two32Minus1
    /\ issued.args.user_id = <<33, 0>>
    /\ SubSeq(issued.res.val, DigestLen + 1, DigestLen + 8)
           = <<102, 102, 102, 102, 102, 102, 102, 102>>

\* the places where two texts of one length differ
DiffersAt(s, t) == {i \in 1..Len(s) : s[i] # t[i]}

\* C3: replacing one character of the digest of a ticket that validate
\* accepts makes validate, called with the same client_ip and now, raise
\* TicketDigestError, wherever in the digest the character is.
C3_TamperSensitivity ==
    (/\ accepted # NoCall
     /\ accepted.res.err = "none"
     /\ outcome.op = "validate"
     /\ outcome.ticket = held
     /\ Len(held) = Len(accepted.ticket)
     /\ \E i \in 1..DigestLen : DiffersAt(held, accepted.ticket) = {i}
     /\ outcome.client_ip = accepted.client_ip
     /\ outcome.now = accepted.now)
    => outcome.res.err = "TicketDigestError"

\* the last character of the digest of an accepted ticket was replaced
C3_Witness ==
    /\ accepted # NoCall
    /\ accepted.res.err = "none"
    /\ outcome.op = "validate"
    /\ outcome.ticket = held
    /\ Len(held) = Len(accepted.ticket)
    /\ DiffersAt(held, accepted.ticket) = {DigestLen}
    /\ outcome.client_ip = accepted.client_ip
    /\ outcome.now = accepted.now
    /\ outcome.res.err = "TicketDigestError"

\* C5 (as claimed): validate returns the fields or raises TicketParseError,
\* TicketDigestError or TicketExpired, and nothing else, whatever the text.
C5_FourOutcomes ==
    (outcome.op = "validate")
    => outcome.res.err \in {"none", "TicketParseError", "TicketDigestError",
                            "TicketExpired"}

\* C6 (as claimed): a text that is too short, or whose time field is not 8
\* hexadecimal digits, or whose remainder is not 3 fields, is refused with
\* TicketParseError by parse and by validate.
C6_StructuralRejection ==
    (/\ outcome.op \in {"parse", "validate"}
     /\ LET t == outcome.ticket
        IN  \/ Len(t) < DigestLen + 8
            \/ \E i \in (DigestLen + 1)..(DigestLen + 8) : ~IsHexDigit(t[i])
            \/ Len(Split(Drop(t, DigestLen + 8), chBang)) # 3)
    => outcome.res.err = "TicketParseError"

\* the digest new computes for the parsed fields and the given address is
\* the one the ticket carries
DigestAgrees(t, client_ip) ==
    LET p == parse(Factory, t).val
        n == new(Factory, p.user_id, p.tokens, p.user_data, p.valid_until,
                 client_ip, Clock)
    IN  n.err = "none" /\ Take(n.val, DigestLen) = p.digest

\* C9 (as claimed): a malformed ticket reports TicketParseError; a well
\* formed one whose digest does not match reports TicketDigestError,
\* expired or not; TicketExpired is reported only when the digest matched.
C9_ValidationOrder ==
    (outcome.op = "validate")
    => LET wellFormed == parse(Factory, outcome.ticket).err = "none"
       IN  /\ ~wellFormed => outcome.res.err = "TicketParseError"
           /\ (wellFormed /\ outcome.res.err # "TicketDigestError")
                  => DigestAgrees(outcome.ticket, outcome.client_ip)
           /\ outcome.res.err = "TicketExpired"
                  => /\ wellFormed
                     /\ DigestAgrees(outcome.ticket, outcome.client_ip)

\* what the finished call returns on a factory nobody has used
OnFreshFactory(call) ==
    CASE call.op = "new" ->
             new(Factory, call.args.user_id, call.args.tokens,
                 call.args.user_data, call.args.valid_until,
                 call.args.client_ip, Clock)
      [] call.op = "parse" -> parse(Factory, call.ticket)
      [] call.op = "validate" ->
             validate(Factory, call.ticket, call.client_ip, call.now, Clock)

\* the calls of the threads with their results on a fresh factory
FreshResults == {[call |-> c, res |-> OnFreshFactory(c)] : c \in ConcCalls}

\* C8: whatever the threads do and however their calls interleave, the
\* factory's hash object stays as constructed, every digest is computed on
\* objects of the call's own, and every call returns what it returns on a
\* fresh factory.
C8_Determinism ==
    /\ heap[BaseRef] = Factory.hash
    /\ \A t \in Threads :
          /\ frame[t].pc \in {"update0", "copy1", "update1", "hexdigest"}
                 => frame[t].hash0 = Hash0Ref(t)
          /\ frame[t].pc \in {"update1", "hexdigest"}
                 => frame[t].hash1 = Hash1Ref(t)
          /\ frame[t].pc = "done"
                 => [call |-> frame[t].call, res |-> frame[t].res]
                        \in FreshResults

\* a call of new has returned its ticket while another thread was in the
\* middle of a digest of its own
C8_Witness ==
    \E t, u \in Threads :
        /\ t # u
        /\ frame[t].pc = "done"
        /\ frame[t].call.op = "new"
        /\ frame[t].res.err = "none"
        /\ frame[u].pc = "update1"
        /\ heap[frame[u].hash0].data # <<>>

Spec == SpecIssue
====
